---- MODULE Spec2Model ----
(***************************************************************************)
(* Model of the reminders screen of the location-reminder app              *)
(* (src/app/(tabs)/index.tsx): the local reminder list, the add and delete *)
(* modals, and the requests in flight between a handler's optimistic       *)
(* update and the answer of its fetch; of the map screen it mounts in its  *)
(* map modal (the revision with a proximity choice, src/unnamed/part_001): *)
(* the assign modal, the selected distance and the location search; and of *)
(* the backend (src/reminder-backend).                                     *)
(*                                                                         *)
(* The repository holds no geofence engine: no GeofenceRegistry,           *)
(* ProximityEvaluator, NotificationDispatcher or TrackingController is     *)
(* defined, declared, tested or called anywhere in the sources.  The only  *)
(* location code is the one-shot getCurrentPositionAsync of the map screen *)
(* and the only notification code is the expo-notifications plugin entry   *)
(* of app.json.  Statements about that engine have no code to be checked   *)
(* against; nothing in this module models it.                              *)
(***************************************************************************)
EXTENDS Integers, Sequences, FiniteSets, TLC

\* ---- bounds -------------------------------------------------------------
MaxReminders == 2      \* reminders the local list may hold
MaxRequests  == 2      \* requests issued over a run

\* ---- values -------------------------------------------------------------
categories == {"Travel", "Events", "Work"}
Ids        == {"r1", "r2"}
NoLocation == "undefined"
Locations  == {"locA", "locB"}
Null       == "null"
Outcomes   == {"ok", "notok", "throw"}

VARIABLES
    reminders,             \* useState<Reminder[]>
    isLoading,             \* useState(true)
    isModalVisible,        \* add-reminder modal
    newReminderTitle,      \* title field of the add modal
    selectedCategory,      \* category of the add modal, or Null
    isMapVisible,          \* map modal
    reminderToAssign,      \* id the map modal assigns to, or Null
    isDeleteModalVisible,  \* delete modal
    selectedReminder,      \* <<reminder>> shown in the delete modal, <<>> for null
    loadPending,           \* the mount effect's fetch is not yet answered
    inflight,              \* requests issued and not yet answered
    issued,                \* number of requests issued so far
    usedIds,               \* _ids the server has handed to this screen
    store,                 \* documents of the backend's Reminder collection
    serverActive,          \* isActive the server holds, by reminder id
    last                   \* the step taken last, with its inputs

\* the state of the map screen (MapScreen)
VARIABLES
    region,                \* Null until the position is known
    errorMsg,              \* Null, or the permission was denied
    selectedLocation,      \* <<coordinate>> pressed on the map, <<>> for null
    isAssignModalVisible,  \* the screen's isModalVisible: the assign modal
    selectedProximity,     \* distance chosen in the assign modal
    searchQuery,           \* text of the search field
    searchResults,         \* places listed under the search field
    isSearching,
    showSearchResults,
    searchTimeout,         \* <<text>> of the pending debounce timer, or <<>>
    blurTimeouts,          \* pending timeouts of handleSearchBlur
    searches,              \* search requests issued and not yet answered
    searched,              \* number of search requests issued
    latestQuery            \* <<query>> of the request issued last, or <<>>

mapVars == <<region, errorMsg, selectedLocation, isAssignModalVisible,
             selectedProximity, searchQuery, searchResults, isSearching,
             showSearchResults, searchTimeout, blurTimeouts, searches,
             searched, latestQuery>>

vars == <<reminders, isLoading, isModalVisible, newReminderTitle,
          selectedCategory, isMapVisible, reminderToAssign,
          isDeleteModalVisible, selectedReminder, loadPending, inflight,
          issued, usedIds, store, serverActive, last, mapVars>>

\* the state of the reminders screen
screenVars == <<reminders, isLoading, isModalVisible, newReminderTitle,
                selectedCategory, isMapVisible, reminderToAssign,
                isDeleteModalVisible, selectedReminder, loadPending,
                inflight, issued, usedIds>>

\* ---- helpers ------------------------------------------------------------
RECURSIVE TrimStart(_)
TrimStart(s) == IF s # <<>> /\ Head(s) = " " THEN TrimStart(Tail(s)) ELSE s

RECURSIVE TrimEnd(_)
TrimEnd(s) ==
    IF s # <<>> /\ s[Len(s)] = " " THEN TrimEnd(SubSeq(s, 1, Len(s) - 1))
    ELSE s

\* String.prototype.trim
Trim(s) == TrimEnd(TrimStart(s))

\* texts typed into the title field: empty, blank, plain, to be trimmed
Titles == {<<>>, <<" ">>, <<"a">>, <<" ", "a">>}

\* reminders.find(r => r.id === id): index of the first match, 0 if none
Find(list, id) ==
    IF \E i \in 1..Len(list) : list[i].id = id
    THEN CHOOSE i \in 1..Len(list) :
            /\ list[i].id = id
            /\ \A j \in 1..(i - 1) : list[j].id # id
    ELSE 0

\* ReplaceById that puts repl at the end when no entry has the id.
ReplaceById_Upsert(list, id, repl) ==
    IF \E i \in 1..Len(list) : list[i].id = id
    THEN [i \in 1..Len(list) |-> IF list[i].id = id THEN repl ELSE list[i]]
    ELSE Append(list, repl)

\* prev.map(r => r.id === id ? repl : r)
ReplaceById(list, id, repl) ==
    [i \in 1..Len(list) |-> IF list[i].id = id THEN repl ELSE list[i]]

\* prev.map(r => r.id === id ? {...r, location} : r)
SetLocationById(list, id, location) ==
    [i \in 1..Len(list) |->
        IF list[i].id = id THEN [list[i] EXCEPT !.location = location]
        ELSE list[i]]

\* prev.filter(r => r.id !== id)
RECURSIVE FilterOut(_, _)
FilterOut(list, id) ==
    IF list = <<>> THEN <<>>
    ELSE IF Head(list).id = id THEN FilterOut(Tail(list), id)
    ELSE <<Head(list)>> \o FilterOut(Tail(list), id)

\* data.map(reminder => ({...reminder, id: reminder._id}))
FormatReminder(doc) ==
    [id |-> doc._id, title |-> doc.title, category |-> doc.category,
     isActive |-> doc.isActive, location |-> doc.location]

\* bodies an ok answer to GET may carry: arrays of stored documents
ServerDocs ==
    [_id : {"r1"}, title : {<<"a">>}, category : {"Travel"},
     isActive : BOOLEAN, location : {NoLocation, "locA"}]

GetBodies == {<<>>} \cup {<<d>> : d \in ServerDocs}

CanIssue == issued < MaxRequests

\* The list is rendered once loading is over, and a visible Modal covers it:
\* its rows and buttons take presses only while no modal is shown.
ListTouchable ==
    ~isLoading /\ ~isModalVisible /\ ~isDeleteModalVisible /\ ~isMapVisible

\* ==== the map screen (MapScreen, mounted inside the map modal) ============
MaxSearches == 2       \* search requests issued by one mounted map screen
MaxBlurTimeouts == 1   \* blur timeouts pending at one time

\* distances offered by the assign modal
Proximities == {1, 10, 25, 50}
DefaultProximity == 10

\* coordinates a press on the map may carry
Coordinates == {[latitude |-> 1, longitude |-> 1],
                [latitude |-> 2, longitude |-> 2]}
\* the coordinate the debug button selects
TestCoordinate == [latitude |-> 37, longitude |-> -122]

\* texts typed into the search field: too short, blank, and two queries
SearchTexts == {<<"a", "b">>, <<" ", " ", " ">>, <<"a", "b", "c">>,
                <<"x", "y", "z">>}

\* what the search service finds for a query: one place, named after it
Places(query) == <<[display_name |-> query]>>

\* The map screen is unmounted: the screen mounted next starts from the
\* initial values of its useState and useRef calls.
MapUnmount ==
    /\ region' = Null
    /\ errorMsg' = Null
    /\ selectedLocation' = <<>>
    /\ isAssignModalVisible' = FALSE
    /\ selectedProximity' = DefaultProximity
    /\ searchQuery' = <<>>
    /\ searchResults' = <<>>
    /\ isSearching' = FALSE
    /\ showSearchResults' = FALSE
    /\ searchTimeout' = <<>>
    /\ blurTimeouts' = 0
    /\ searches' = {}
    /\ searched' = 0
    /\ latestQuery' = <<>>

\* ---- initial state ------------------------------------------------------
Init ==
    /\ reminders = <<>>
    /\ isLoading = TRUE
    /\ isModalVisible = FALSE
    /\ newReminderTitle = <<>>
    /\ selectedCategory = Null
    /\ isMapVisible = FALSE
    /\ reminderToAssign = Null
    /\ isDeleteModalVisible = FALSE
    /\ selectedReminder = <<>>
    /\ loadPending = TRUE
    /\ inflight = {}
    /\ issued = 0
    /\ usedIds = {}
    /\ store = <<>>
    /\ serverActive = <<>>
    /\ last = [op |-> "init"]
    /\ region = Null
    /\ errorMsg = Null
    /\ selectedLocation = <<>>
    /\ isAssignModalVisible = FALSE
    /\ selectedProximity = DefaultProximity
    /\ searchQuery = <<>>
    /\ searchResults = <<>>
    /\ isSearching = FALSE
    /\ showSearchResults = FALSE
    /\ searchTimeout = <<>>
    /\ blurTimeouts = 0
    /\ searches = {}
    /\ searched = 0
    /\ latestQuery = <<>>

\* ---- loadReminders ------------------------------------------------------
\* loadRemindersAnswer with setIsLoading(false) at the end of the try block
\* instead of in a finally block.
loadRemindersAnswer_NoFinally(outcome, isArray, data) ==
    /\ loadPending
    /\ loadPending' = FALSE
    /\ isLoading' = (outcome = "throw")
    /\ reminders' =
            IF outcome = "ok"
            THEN IF isArray
                 THEN [i \in 1..Len(data) |-> FormatReminder(data[i])]
                 ELSE <<>>
            ELSE reminders
    /\ usedIds' = IF outcome = "ok" /\ isArray
                  THEN usedIds \cup {data[i]._id : i \in 1..Len(data)}
                  ELSE usedIds
    /\ serverActive' =
            IF outcome = "ok" /\ isArray
            THEN [id \in {data[i]._id : i \in 1..Len(data)} |->
                     LET i == CHOOSE j \in 1..Len(data) : data[j]._id = id
                     IN data[i].isActive]
            ELSE serverActive
    /\ last' = [op |-> "loadReminders", outcome |-> outcome,
                isArray |-> isArray, data |-> data]
    /\ UNCHANGED <<isModalVisible, newReminderTitle, selectedCategory,
                   isMapVisible, reminderToAssign, isDeleteModalVisible,
                   selectedReminder, inflight, issued, store>>

\* The fetch of the mount effect is answered: ok with an array, ok with a
\* body that is not an array, a non-ok status, or a thrown error.
loadRemindersAnswer(outcome, isArray, data) ==
    /\ loadPending
    /\ loadPending' = FALSE
    /\ isLoading' = FALSE
    /\ reminders' =
            IF outcome = "ok"
            THEN IF isArray
                 THEN [i \in 1..Len(data) |-> FormatReminder(data[i])]
                 ELSE <<>>
            ELSE reminders
    /\ usedIds' = IF outcome = "ok" /\ isArray
                  THEN usedIds \cup {data[i]._id : i \in 1..Len(data)}
                  ELSE usedIds
    \* the documents of an ok answer are what the server holds
    /\ serverActive' =
            IF outcome = "ok" /\ isArray
            THEN [id \in {data[i]._id : i \in 1..Len(data)} |->
                     LET i == CHOOSE j \in 1..Len(data) : data[j]._id = id
                     IN data[i].isActive]
            ELSE serverActive
    /\ last' = [op |-> "loadReminders", outcome |-> outcome,
                isArray |-> isArray, data |-> data]
    /\ UNCHANGED <<isModalVisible, newReminderTitle, selectedCategory,
                   isMapVisible, reminderToAssign, isDeleteModalVisible,
                   selectedReminder, inflight, issued, store>>

loadReminders ==
    \E outcome \in Outcomes, isArray \in BOOLEAN, data \in GetBodies :
        loadRemindersAnswer(outcome, isArray, data)

\* ---- toggleReminder -----------------------------------------------------
\* Up to the await: look the reminder up, apply the flipped isActive, send
\* the PATCH.  The request keeps the reminder found, for the rollback.
toggleReminder(id) ==
    /\ ListTouchable
    /\ CanIssue
    /\ Find(reminders, id) # 0
    /\ LET reminder == reminders[Find(reminders, id)]
           updatedReminder == [reminder EXCEPT !.isActive = ~reminder.isActive]
           req == [kind |-> "toggle", n |-> issued + 1, id |-> id,
                   reminder |-> reminder]
       IN /\ reminders' = ReplaceById(reminders, id, updatedReminder)
          /\ inflight' = inflight \cup {req}
          /\ last' = [op |-> "toggleReminder", req |-> req]
    /\ issued' = issued + 1
    /\ UNCHANGED <<isLoading, isModalVisible, newReminderTitle,
                   selectedCategory, isMapVisible, reminderToAssign,
                   isDeleteModalVisible, selectedReminder, loadPending>>
    /\ UNCHANGED <<usedIds, store, serverActive>>

\* toggleReminderAnswer with the rollback left out of the catch branch.
toggleReminderAnswer_NoRollbackOnThrow(req, outcome) ==
    /\ req \in inflight
    /\ req.kind = "toggle"
    /\ reminders' = IF outcome = "notok"
                    THEN ReplaceById(reminders, req.id, req.reminder)
                    ELSE reminders
    /\ inflight' = inflight \ {req}
    /\ UNCHANGED <<isLoading, isModalVisible, newReminderTitle,
                   selectedCategory, isMapVisible, reminderToAssign,
                   isDeleteModalVisible, selectedReminder, loadPending,
                   issued>>
    /\ last' = [op |-> "toggleReminderAnswer", req |-> req,
                outcome |-> outcome]
    \* an ok answer means the server has stored the isActive that was sent
    /\ serverActive' =
            IF outcome = "ok" /\ req.id \in DOMAIN serverActive
            THEN [serverActive EXCEPT ![req.id] = ~req.reminder.isActive]
            ELSE serverActive
    /\ UNCHANGED <<usedIds, store>>

\* After the await: nothing on ok, the rollback otherwise.
toggleReminderAnswer(req, outcome) ==
    /\ req \in inflight
    /\ req.kind = "toggle"
    /\ reminders' = IF outcome = "ok" THEN reminders
                    ELSE ReplaceById(reminders, req.id, req.reminder)
    /\ inflight' = inflight \ {req}
    /\ UNCHANGED <<isLoading, isModalVisible, newReminderTitle,
                   selectedCategory, isMapVisible, reminderToAssign,
                   isDeleteModalVisible, selectedReminder, loadPending,
                   issued>>
    /\ last' = [op |-> "toggleReminderAnswer", req |-> req,
                outcome |-> outcome]
    \* an ok answer means the server has stored the isActive that was sent
    /\ serverActive' =
            IF outcome = "ok" /\ req.id \in DOMAIN serverActive
            THEN [serverActive EXCEPT ![req.id] = ~req.reminder.isActive]
            ELSE serverActive
    /\ UNCHANGED <<usedIds, store>>

\* ---- addReminder --------------------------------------------------------
\* The "+" button of a category box opens the add modal for that category.
openAddModal(category) ==
    /\ ListTouchable
    /\ selectedCategory' = category
    /\ isModalVisible' = TRUE
    /\ UNCHANGED <<reminders, isLoading, newReminderTitle, isMapVisible,
                   reminderToAssign, isDeleteModalVisible, selectedReminder,
                   loadPending, inflight, issued>>
    /\ last' = [op |-> "openAddModal"]
    /\ UNCHANGED <<usedIds, store, serverActive>>

\* onChangeText of the title field.
setNewReminderTitle(text) ==
    /\ isModalVisible
    /\ newReminderTitle' = text
    /\ UNCHANGED <<reminders, isLoading, isModalVisible, selectedCategory,
                   isMapVisible, reminderToAssign, isDeleteModalVisible,
                   selectedReminder, loadPending, inflight, issued>>
    /\ last' = [op |-> "setNewReminderTitle"]
    /\ UNCHANGED <<usedIds, store, serverActive>>

\* Cancel button and the modal's close request.
resetModal ==
    /\ isModalVisible
    /\ isModalVisible' = FALSE
    /\ newReminderTitle' = <<>>
    /\ selectedCategory' = Null
    /\ UNCHANGED <<reminders, isLoading, isMapVisible, reminderToAssign,
                   isDeleteModalVisible, selectedReminder, loadPending,
                   inflight, issued>>
    /\ last' = [op |-> "resetModal"]
    /\ UNCHANGED <<usedIds, store, serverActive>>

\* Up to the await: the two early returns, then the POST.
addReminder ==
    /\ isModalVisible
    /\ IF Trim(newReminderTitle) = <<>> \/ selectedCategory = Null
       THEN /\ last' = [op |-> "addReminder", sent |-> FALSE]
            /\ UNCHANGED <<inflight, issued>>
       ELSE LET req == [kind |-> "add", n |-> issued + 1,
                        newReminder |-> [title |-> Trim(newReminderTitle),
                                         category |-> selectedCategory,
                                         isActive |-> TRUE]]
            IN /\ CanIssue
               /\ inflight' = inflight \cup {req}
               /\ issued' = issued + 1
               /\ last' = [op |-> "addReminder", sent |-> TRUE, req |-> req]
    /\ UNCHANGED <<reminders, isLoading, isModalVisible, newReminderTitle,
                   selectedCategory, isMapVisible, reminderToAssign,
                   isDeleteModalVisible, selectedReminder, loadPending,
                   usedIds, store, serverActive>>

\* The body an ok answer to the POST carries: the document sent, under an
\* _id of the server's choosing that no other document has.
SavedReminder(newReminder, newId) ==
    [_id |-> newId, title |-> newReminder.title,
     category |-> newReminder.category, isActive |-> newReminder.isActive,
     location |-> NoLocation]

\* addReminderAnswer that resets the form in a finally block.
addReminderAnswer_ResetAlways(req, outcome, savedReminder) ==
    /\ req \in inflight
    /\ req.kind = "add"
    /\ inflight' = inflight \ {req}
    /\ IF outcome = "ok"
       THEN /\ Len(reminders) < MaxReminders
            /\ savedReminder._id \notin usedIds
            /\ reminders' = Append(reminders, FormatReminder(savedReminder))
            /\ usedIds' = usedIds \cup {savedReminder._id}
            /\ serverActive' =
                    [id \in DOMAIN serverActive \cup {savedReminder._id} |->
                        IF id = savedReminder._id THEN savedReminder.isActive
                        ELSE serverActive[id]]
       ELSE UNCHANGED <<reminders, usedIds, serverActive>>
    /\ isModalVisible' = FALSE
    /\ newReminderTitle' = <<>>
    /\ selectedCategory' = Null
    /\ last' = [op |-> "addReminderAnswer", req |-> req, outcome |-> outcome,
                savedReminder |-> savedReminder]
    /\ UNCHANGED <<isLoading, isMapVisible, reminderToAssign,
                   isDeleteModalVisible, selectedReminder, loadPending,
                   issued, store>>

\* After the await.
addReminderAnswer(req, outcome, savedReminder) ==
    /\ req \in inflight
    /\ req.kind = "add"
    /\ inflight' = inflight \ {req}
    /\ IF outcome = "ok"
       THEN /\ Len(reminders) < MaxReminders
            /\ savedReminder._id \notin usedIds
            /\ reminders' = Append(reminders, FormatReminder(savedReminder))
            /\ usedIds' = usedIds \cup {savedReminder._id}
            /\ serverActive' =
                    [id \in DOMAIN serverActive \cup {savedReminder._id} |->
                        IF id = savedReminder._id THEN savedReminder.isActive
                        ELSE serverActive[id]]
            /\ isModalVisible' = FALSE
            /\ newReminderTitle' = <<>>
            /\ selectedCategory' = Null
       ELSE UNCHANGED <<reminders, isModalVisible, newReminderTitle,
                        selectedCategory, usedIds, serverActive>>
    /\ last' = [op |-> "addReminderAnswer", req |-> req, outcome |-> outcome,
                savedReminder |-> savedReminder]
    /\ UNCHANGED <<isLoading, isMapVisible, reminderToAssign,
                   isDeleteModalVisible, selectedReminder, loadPending,
                   issued, store>>

\* ---- deleteReminder -----------------------------------------------------
\* Pressing a reminder opens the delete modal on it.
handleReminderPress(i) ==
    /\ ListTouchable
    /\ i \in 1..Len(reminders)
    /\ selectedReminder' = <<reminders[i]>>
    /\ isDeleteModalVisible' = TRUE
    /\ UNCHANGED <<reminders, isLoading, isModalVisible, newReminderTitle,
                   selectedCategory, isMapVisible, reminderToAssign,
                   loadPending, inflight, issued>>
    /\ last' = [op |-> "handleReminderPress"]
    /\ UNCHANGED <<usedIds, store, serverActive>>

\* Cancel button and the modal's close request.
resetDeleteModal ==
    /\ isDeleteModalVisible
    /\ isDeleteModalVisible' = FALSE
    /\ selectedReminder' = <<>>
    /\ UNCHANGED <<reminders, isLoading, isModalVisible, newReminderTitle,
                   selectedCategory, isMapVisible, reminderToAssign,
                   loadPending, inflight, issued>>
    /\ last' = [op |-> "resetDeleteModal"]
    /\ UNCHANGED <<usedIds, store, serverActive>>

\* Delete button: selectedReminder && deleteReminder(selectedReminder.id),
\* up to the await.
deleteReminder ==
    /\ isDeleteModalVisible
    /\ selectedReminder # <<>>
    /\ CanIssue
    /\ LET req == [kind |-> "delete", n |-> issued + 1,
                   id |-> selectedReminder[1].id]
       IN /\ inflight' = inflight \cup {req}
          /\ last' = [op |-> "deleteReminder", req |-> req]
    /\ issued' = issued + 1
    /\ UNCHANGED <<reminders, isLoading, isModalVisible, newReminderTitle,
                   selectedCategory, isMapVisible, reminderToAssign,
                   isDeleteModalVisible, selectedReminder, loadPending>>
    /\ UNCHANGED <<usedIds, store, serverActive>>

\* deleteReminderAnswer that closes the delete modal whatever the answer.
deleteReminderAnswer_AlwaysClose(req, outcome) ==
    /\ req \in inflight
    /\ req.kind = "delete"
    /\ inflight' = inflight \ {req}
    /\ reminders' = IF outcome = "ok" THEN FilterOut(reminders, req.id)
                    ELSE reminders
    /\ isDeleteModalVisible' = FALSE
    /\ selectedReminder' = <<>>
    /\ UNCHANGED <<isLoading, isModalVisible, newReminderTitle,
                   selectedCategory, isMapVisible, reminderToAssign,
                   loadPending, issued>>
    /\ last' = [op |-> "deleteReminderAnswer", req |-> req,
                outcome |-> outcome]
    /\ serverActive' =
            IF outcome = "ok"
            THEN [id \in DOMAIN serverActive \ {req.id} |-> serverActive[id]]
            ELSE serverActive
    /\ UNCHANGED <<usedIds, store>>

\* After the await.
deleteReminderAnswer(req, outcome) ==
    /\ req \in inflight
    /\ req.kind = "delete"
    /\ inflight' = inflight \ {req}
    /\ IF outcome = "ok"
       THEN /\ reminders' = FilterOut(reminders, req.id)
            /\ isDeleteModalVisible' = FALSE
            /\ selectedReminder' = <<>>
       ELSE UNCHANGED <<reminders, isDeleteModalVisible, selectedReminder>>
    /\ UNCHANGED <<isLoading, isModalVisible, newReminderTitle,
                   selectedCategory, isMapVisible, reminderToAssign,
                   loadPending, issued>>
    /\ last' = [op |-> "deleteReminderAnswer", req |-> req,
                outcome |-> outcome]
    \* an ok answer means the server no longer holds the reminder
    /\ serverActive' =
            IF outcome = "ok"
            THEN [id \in DOMAIN serverActive \ {req.id} |-> serverActive[id]]
            ELSE serverActive
    /\ UNCHANGED <<usedIds, store>>

\* ---- onAssignLocation ---------------------------------------------------
\* The pin button of a reminder opens the map modal for it.
openMap(id) ==
    /\ ListTouchable
    /\ Find(reminders, id) # 0
    /\ reminderToAssign' = id
    /\ isMapVisible' = TRUE
    /\ UNCHANGED <<reminders, isLoading, isModalVisible, newReminderTitle,
                   selectedCategory, isDeleteModalVisible, selectedReminder,
                   loadPending, inflight, issued>>
    /\ last' = [op |-> "openMap"]
    /\ UNCHANGED <<usedIds, store, serverActive>>

\* Close button of the map modal and its close request.
closeMap ==
    /\ isMapVisible
    /\ isMapVisible' = FALSE
    /\ UNCHANGED <<reminders, isLoading, isModalVisible, newReminderTitle,
                   selectedCategory, reminderToAssign, isDeleteModalVisible,
                   selectedReminder, loadPending, inflight, issued>>
    /\ last' = [op |-> "closeMap"]
    /\ UNCHANGED <<usedIds, store, serverActive>>

\* Called by the map screen with the reminder chosen there; up to the await.
onAssignLocation(reminderId, location) ==
    /\ isMapVisible
    /\ Find(reminders, reminderId) # 0
    /\ CanIssue
    /\ reminders' = SetLocationById(reminders, reminderId, location)
    /\ LET req == [kind |-> "assign", n |-> issued + 1, id |-> reminderId,
                   location |-> location,
                   \* not kept by the code: the location the reminder had
                   \* when the handler was called
                   prior |-> reminders[Find(reminders, reminderId)].location]
       IN /\ inflight' = inflight \cup {req}
          /\ last' = [op |-> "onAssignLocation", req |-> req]
    /\ issued' = issued + 1
    /\ UNCHANGED <<isLoading, isModalVisible, newReminderTitle,
                   selectedCategory, isMapVisible, reminderToAssign,
                   isDeleteModalVisible, selectedReminder, loadPending>>
    /\ UNCHANGED <<usedIds, store, serverActive>>

\* After the await: the rollback on failure, then the map modal is closed.
onAssignLocationAnswer(req, outcome) ==
    /\ req \in inflight
    /\ req.kind = "assign"
    /\ inflight' = inflight \ {req}
    /\ reminders' = IF outcome = "ok" THEN reminders
                    ELSE SetLocationById(reminders, req.id, NoLocation)
    /\ isMapVisible' = FALSE
    /\ reminderToAssign' = Null
    /\ UNCHANGED <<isLoading, isModalVisible, newReminderTitle,
                   selectedCategory, isDeleteModalVisible, selectedReminder,
                   loadPending, issued>>
    /\ last' = [op |-> "onAssignLocationAnswer", req |-> req,
                outcome |-> outcome]
    /\ UNCHANGED <<usedIds, store, serverActive>>

\* ---- toggleReminder: optimistic update and rollback ----------------------
\* the entries of the local list with the given id
WithId(id) == {i \in 1..Len(reminders) : reminders[i].id = id}

\* C17: toggleReminder applies the flipped isActive to the local reminder
\* before its PATCH is answered (the request is still in flight), and when
\* the PATCH is answered with a non-ok status or the request throws, the
\* reminder's local isActive is again the value it had when toggleReminder
\* was called.
C17_ToggleOptimisticThenRollback ==
    /\ last.op = "toggleReminder" =>
          /\ last.req \in inflight
          /\ \A i \in WithId(last.req.id) :
                reminders[i].isActive = ~last.req.reminder.isActive
    /\ (last.op = "toggleReminderAnswer" /\ last.outcome # "ok") =>
          \A i \in WithId(last.req.id) :
             reminders[i].isActive = last.req.reminder.isActive

\* a toggle whose request threw has just been rolled back on a reminder
\* that is still in the list
C17_Witness ==
    /\ last.op = "toggleReminderAnswer"
    /\ last.outcome = "throw"
    /\ WithId(last.req.id) # {}

\* ---- toggleReminder: the local flag and the server's --------------------
\* a toggle request for this reminder is not yet answered
TogglePending(id) == \E req \in inflight : req.kind = "toggle" /\ req.id = id

\* C22: under any interleaving of toggleReminder calls on one reminder and
\* of the answers to their PATCH requests, each succeeding or failing, once
\* no toggle request for that reminder is in flight the local isActive of
\* the reminder is the isActive the server holds for it.
C22_SettledToggleMatchesServer ==
    \A id \in Ids :
       ~TogglePending(id) =>
          \A i \in WithId(id) :
             /\ id \in DOMAIN serverActive
             /\ reminders[i].isActive = serverActive[id]

\* C23: the rollback of a failed toggleReminder changes nothing but the
\* isActive of the toggled reminder: every other field of it, such as a
\* location assigned by onAssignLocation between the toggle's start and its
\* failure, is after the rollback what it was before it, and every other
\* reminder of the list is unchanged.
C23_ToggleRollbackTouchesOnlyIsActive ==
    [][(last'.op = "toggleReminderAnswer" /\ last'.outcome # "ok") =>
          /\ Len(reminders') = Len(reminders)
          /\ \A i \in 1..Len(reminders) :
                reminders'[i] =
                   IF reminders[i].id = last'.req.id
                   THEN [reminders[i] EXCEPT
                            !.isActive = last'.req.reminder.isActive]
                   ELSE reminders[i]]_vars

\* ---- deleteReminder ------------------------------------------------------
\* C24: deleteReminder removes the reminder from the local list only after
\* its DELETE request is answered ok; when the answer is not ok or the
\* request throws, the local list, the delete modal and the selected
\* reminder are what they were before the answer.
C24_DeleteOnlyAfterOk ==
    [][/\ last'.op = "deleteReminder" =>
             /\ last'.req \in inflight'
             /\ UNCHANGED <<reminders, isDeleteModalVisible, selectedReminder>>
       /\ (last'.op = "deleteReminderAnswer" /\ last'.outcome # "ok") =>
             UNCHANGED <<reminders, isDeleteModalVisible, selectedReminder>>
       /\ (last'.op = "deleteReminderAnswer" /\ last'.outcome = "ok") =>
             /\ reminders' = FilterOut(reminders, last'.req.id)
             /\ \A i \in 1..Len(reminders') :
                   reminders'[i].id # last'.req.id]_vars

\* a DELETE failed while the delete modal was showing the reminder, which
\* is still in the list
C24_Witness ==
    /\ last.op = "deleteReminderAnswer"
    /\ last.outcome # "ok"
    /\ isDeleteModalVisible
    /\ selectedReminder # <<>>
    /\ WithId(last.req.id) # {}

\* C25: a reminder removed from the local list by a confirmed delete never
\* comes back: no later step, and in particular no answer (success, failure
\* or rollback) to a toggle or location request that was in flight for it,
\* puts a reminder with its id into the list again.
C25_DeletedNeverReappears ==
    [][\A id \in Ids :
          (id \in usedIds /\ WithId(id) = {}) =>
             \A i \in 1..Len(reminders') : reminders'[i].id # id]_vars

\* the failed toggle of a reminder was rolled back after the reminder had
\* been deleted
C25_Witness ==
    /\ last.op = "toggleReminderAnswer"
    /\ last.outcome # "ok"
    /\ last.req.id \in usedIds
    /\ WithId(last.req.id) = {}

\* ---- addReminder ---------------------------------------------------------
\* the add form: the modal, its title field and its category
addForm == <<isModalVisible, newReminderTitle, selectedCategory>>

\* C26: addReminder sends no request and changes no state when the trimmed
\* title is empty or no category is selected; when its POST is answered not
\* ok or throws, the local list is unchanged and the add form keeps its
\* visibility, title and category; only an ok answer appends a reminder,
\* exactly one, whose id is the _id of the server's document, and resets
\* the form.
C26_AddOnlyOnOk ==
    [][/\ last'.op = "addReminder" =>
             /\ last'.sent <=>
                    (Trim(newReminderTitle) # <<>> /\ selectedCategory # Null)
             /\ ~last'.sent => UNCHANGED screenVars
             /\ last'.sent =>
                    /\ inflight' = inflight \cup {last'.req}
                    /\ last'.req.newReminder.title = Trim(newReminderTitle)
                    /\ UNCHANGED <<reminders, addForm>>
       /\ (last'.op = "addReminderAnswer" /\ last'.outcome # "ok") =>
             UNCHANGED <<reminders, addForm>>
       /\ (last'.op = "addReminderAnswer" /\ last'.outcome = "ok") =>
             /\ Len(reminders') = Len(reminders) + 1
             /\ SubSeq(reminders', 1, Len(reminders)) = reminders
             /\ reminders'[Len(reminders')].id = last'.savedReminder._id
             /\ reminders'[Len(reminders')].title =
                    last'.req.newReminder.title
             /\ addForm' = <<FALSE, <<>>, Null>>
       /\ last'.op \notin {"addReminderAnswer", "loadReminders"} =>
             Len(reminders') <= Len(reminders)]_vars

\* a POST failed while the add form was open with a title that needed
\* trimming
C26_Witness ==
    /\ last.op = "addReminderAnswer"
    /\ last.outcome # "ok"
    /\ isModalVisible
    /\ newReminderTitle = <<" ", "a">>
    /\ selectedCategory # Null

\* ---- loadReminders -------------------------------------------------------
\* C27: loadReminders ends with isLoading false whatever the answer (ok
\* with an array, ok with a body that is not an array, non-ok, thrown) and
\* isLoading never becomes true again; the local list is replaced only on
\* an ok answer, by the returned array with each id taken from _id or by
\* the empty list when the body is not an array, and is unchanged
\* otherwise.
C27_LoadEndsLoading ==
    [][/\ last'.op = "loadReminders" =>
             /\ ~isLoading'
             /\ last'.outcome # "ok" => reminders' = reminders
             /\ (last'.outcome = "ok" /\ ~last'.isArray) => reminders' = <<>>
             /\ (last'.outcome = "ok" /\ last'.isArray) =>
                    /\ Len(reminders') = Len(last'.data)
                    /\ \A i \in 1..Len(last'.data) :
                          /\ reminders'[i].id = last'.data[i]._id
                          /\ reminders'[i].title = last'.data[i].title
                          /\ reminders'[i].isActive = last'.data[i].isActive
       /\ ~isLoading => ~isLoading']_vars

\* loading is over, the list came out empty and a later step was taken
C27_Witness ==
    /\ ~isLoading
    /\ ~loadPending
    /\ reminders = <<>>
    /\ last.op = "openAddModal"

\* ---- onAssignLocation: optimistic update and rollback --------------------
\* C18: onAssignLocation applies the new location to the local reminder
\* before its PATCH is answered, and when the PATCH fails (non-ok status or
\* thrown error) the reminder's local location is again what it was before
\* the assignment, also when the reminder already had a location.
C18_AssignRollbackRestoresPrior ==
    /\ last.op = "onAssignLocation" =>
          /\ last.req \in inflight
          /\ \A i \in WithId(last.req.id) :
                reminders[i].location = last.req.location
    /\ (last.op = "onAssignLocationAnswer" /\ last.outcome # "ok") =>
          \A i \in WithId(last.req.id) :
             reminders[i].location = last.req.prior

\* ==== the map screen: handlers ===========================================
\* The map, the search bar and the debug button are rendered once region is
\* set, and the assign modal covers them while it is visible.
MapTouchable == isMapVisible /\ region # Null /\ ~isAssignModalVisible

\* The mount effect: the permission request, then the current position.
locationEffect(status) ==
    /\ isMapVisible
    /\ region = Null
    /\ errorMsg = Null
    /\ IF status = "granted"
       THEN region' = "region" /\ UNCHANGED errorMsg
       ELSE errorMsg' = "denied" /\ UNCHANGED region
    /\ last' = [op |-> "locationEffect"]
    /\ UNCHANGED <<selectedLocation, isAssignModalVisible, selectedProximity,
                   searchQuery, searchResults, isSearching,
                   showSearchResults, searchTimeout, blurTimeouts, searches,
                   searched, latestQuery>>
    /\ UNCHANGED <<screenVars, store, serverActive>>

\* ---- search --------------------------------------------------------------
\* searchLocation up to its await: the early return, or the fetch.
searchLocation(query) ==
    IF Trim(query) = <<>> \/ Len(query) < 3
    THEN /\ searchResults' = <<>>
         /\ showSearchResults' = FALSE
         /\ UNCHANGED <<isSearching, searches, searched, latestQuery>>
    ELSE /\ searched < MaxSearches
         /\ isSearching' = TRUE
         /\ searches' = searches \cup {[n |-> searched + 1, query |-> query]}
         /\ searched' = searched + 1
         /\ latestQuery' = <<query>>
         /\ UNCHANGED <<searchResults, showSearchResults>>

\* onChangeText: the text is kept and the debounce timer restarted.
handleSearchInput(text) ==
    /\ MapTouchable
    /\ searchQuery' = text
    /\ searchTimeout' = <<text>>
    /\ last' = [op |-> "handleSearchInput"]
    /\ UNCHANGED <<region, errorMsg, selectedLocation, isAssignModalVisible,
                   selectedProximity, searchResults, isSearching,
                   showSearchResults, blurTimeouts, searches, searched,
                   latestQuery>>
    /\ UNCHANGED <<screenVars, store, serverActive>>

\* The debounce timer fires: searchLocation(text).
searchTimeoutFires ==
    /\ isMapVisible
    /\ searchTimeout # <<>>
    /\ searchLocation(searchTimeout[1])
    /\ searchTimeout' = <<>>
    /\ last' = [op |-> "searchTimeoutFires"]
    /\ UNCHANGED <<region, errorMsg, selectedLocation, isAssignModalVisible,
                   selectedProximity, searchQuery, blurTimeouts>>
    /\ UNCHANGED <<screenVars, store, serverActive>>

\* onSubmitEditing: searchLocation(searchQuery); the timer is left alone.
onSubmitEditing ==
    /\ MapTouchable
    /\ searchLocation(searchQuery)
    /\ last' = [op |-> "onSubmitEditing"]
    /\ UNCHANGED <<region, errorMsg, selectedLocation, isAssignModalVisible,
                   selectedProximity, searchQuery, searchTimeout,
                   blurTimeouts>>
    /\ UNCHANGED <<screenVars, store, serverActive>>

\* searchLocation after its await: data on an ok answer that is a JSON
\* array; the catch branch otherwise; then the finally block.
searchLocationAnswer(req, outcome, data) ==
    /\ isMapVisible
    /\ req \in searches
    /\ searches' = searches \ {req}
    /\ IF outcome = "ok"
       THEN /\ searchResults' = data
            /\ showSearchResults' = (Len(data) > 0)
       ELSE /\ searchResults' = <<>>
            /\ showSearchResults' = FALSE
    /\ isSearching' = FALSE
    /\ last' = [op |-> "searchLocationAnswer", req |-> req,
                outcome |-> outcome]
    /\ UNCHANGED <<region, errorMsg, selectedLocation, isAssignModalVisible,
                   selectedProximity, searchQuery, searchTimeout,
                   blurTimeouts, searched, latestQuery>>
    /\ UNCHANGED <<screenVars, store, serverActive>>

\* A row of the result list is pressed.
handleSearchResultSelect(i) ==
    /\ MapTouchable
    /\ showSearchResults
    /\ i \in 1..Len(searchResults)
    /\ searchQuery' = searchResults[i].display_name
    /\ searchResults' = <<>>
    /\ showSearchResults' = FALSE
    /\ last' = [op |-> "handleSearchResultSelect"]
    /\ UNCHANGED <<region, errorMsg, selectedLocation, isAssignModalVisible,
                   selectedProximity, isSearching, searchTimeout,
                   blurTimeouts, searches, searched, latestQuery>>
    /\ UNCHANGED <<screenVars, store, serverActive>>

\* The clear button, shown while the field holds text.
clearSearch ==
    /\ MapTouchable
    /\ Len(searchQuery) > 0
    /\ searchQuery' = <<>>
    /\ searchResults' = <<>>
    /\ showSearchResults' = FALSE
    /\ last' = [op |-> "clearSearch"]
    /\ UNCHANGED <<region, errorMsg, selectedLocation, isAssignModalVisible,
                   selectedProximity, isSearching, searchTimeout,
                   blurTimeouts, searches, searched, latestQuery>>
    /\ UNCHANGED <<screenVars, store, serverActive>>

handleSearchFocus ==
    /\ MapTouchable
    /\ showSearchResults' = IF Len(searchQuery) >= 3 THEN TRUE
                            ELSE showSearchResults
    /\ last' = [op |-> "handleSearchFocus"]
    /\ UNCHANGED <<region, errorMsg, selectedLocation, isAssignModalVisible,
                   selectedProximity, searchQuery, searchResults,
                   isSearching, searchTimeout, blurTimeouts, searches,
                   searched, latestQuery>>
    /\ UNCHANGED <<screenVars, store, serverActive>>

\* The field loses focus: the result list is hidden 200 ms later.
handleSearchBlur ==
    /\ MapTouchable
    /\ blurTimeouts < MaxBlurTimeouts
    /\ blurTimeouts' = blurTimeouts + 1
    /\ last' = [op |-> "handleSearchBlur"]
    /\ UNCHANGED <<region, errorMsg, selectedLocation, isAssignModalVisible,
                   selectedProximity, searchQuery, searchResults,
                   isSearching, showSearchResults, searchTimeout, searches,
                   searched, latestQuery>>
    /\ UNCHANGED <<screenVars, store, serverActive>>

blurTimeoutFires ==
    /\ isMapVisible
    /\ blurTimeouts > 0
    /\ blurTimeouts' = blurTimeouts - 1
    /\ showSearchResults' = FALSE
    /\ last' = [op |-> "blurTimeoutFires"]
    /\ UNCHANGED <<region, errorMsg, selectedLocation, isAssignModalVisible,
                   selectedProximity, searchQuery, searchResults,
                   isSearching, searchTimeout, searches, searched,
                   latestQuery>>
    /\ UNCHANGED <<screenVars, store, serverActive>>

\* ---- the assign modal ----------------------------------------------------
\* handleMapPress without the early return.
handleMapPress_NoEarlyReturn(coordinate) ==
    /\ MapTouchable
    /\ showSearchResults' = FALSE
    /\ selectedLocation' = <<coordinate>>
    /\ isAssignModalVisible' = TRUE
    /\ last' = [op |-> "handleMapPress", coordinate |-> coordinate]
    /\ UNCHANGED <<region, errorMsg, selectedProximity, searchQuery,
                   searchResults, isSearching, searchTimeout, blurTimeouts,
                   searches, searched, latestQuery>>
    /\ UNCHANGED <<screenVars, store, serverActive>>

\* A press on the map.
handleMapPress(coordinate) ==
    /\ MapTouchable
    /\ IF showSearchResults
       THEN /\ showSearchResults' = FALSE
            /\ UNCHANGED <<selectedLocation, isAssignModalVisible>>
       ELSE /\ selectedLocation' = <<coordinate>>
            /\ isAssignModalVisible' = TRUE
            /\ UNCHANGED showSearchResults
    /\ last' = [op |-> "handleMapPress", coordinate |-> coordinate]
    /\ UNCHANGED <<region, errorMsg, selectedProximity, searchQuery,
                   searchResults, isSearching, searchTimeout, blurTimeouts,
                   searches, searched, latestQuery>>
    /\ UNCHANGED <<screenVars, store, serverActive>>

\* The debug button.
testModal ==
    /\ MapTouchable
    /\ selectedLocation' = <<TestCoordinate>>
    /\ isAssignModalVisible' = TRUE
    /\ last' = [op |-> "testModal"]
    /\ UNCHANGED <<region, errorMsg, selectedProximity, searchQuery,
                   searchResults, isSearching, showSearchResults,
                   searchTimeout, blurTimeouts, searches, searched,
                   latestQuery>>
    /\ UNCHANGED <<screenVars, store, serverActive>>

\* One of the distance buttons of the assign modal.
setSelectedProximity(distance) ==
    /\ isMapVisible
    /\ isAssignModalVisible
    /\ selectedProximity' = distance
    /\ last' = [op |-> "setSelectedProximity"]
    /\ UNCHANGED <<region, errorMsg, selectedLocation, isAssignModalVisible,
                   searchQuery, searchResults, isSearching,
                   showSearchResults, searchTimeout, blurTimeouts, searches,
                   searched, latestQuery>>
    /\ UNCHANGED <<screenVars, store, serverActive>>

\* handleAssignLocation that hands over the default distance.
handleAssignLocation_DefaultProximity(reminderId) ==
    /\ isAssignModalVisible
    /\ selectedLocation # <<>>
    /\ LET locationWithProximity ==
               [latitude |-> selectedLocation[1].latitude,
                longitude |-> selectedLocation[1].longitude,
                proximity |-> DefaultProximity]
       IN onAssignLocation(reminderId, locationWithProximity)
    /\ UNCHANGED mapVars

\* A reminder of the modal's list is pressed; up to the await, which is the
\* call of the parent's onAssignLocation.
handleAssignLocation(reminderId) ==
    /\ isAssignModalVisible
    /\ selectedLocation # <<>>
    /\ LET locationWithProximity ==
               [latitude |-> selectedLocation[1].latitude,
                longitude |-> selectedLocation[1].longitude,
                proximity |-> selectedProximity]
       IN onAssignLocation(reminderId, locationWithProximity)
    /\ UNCHANGED mapVars

\* The parent's onAssignLocation is over: it has closed the map modal, which
\* unmounts this screen, so the three resets that follow the await reach no
\* mounted screen and the next one starts from its initial state.
handleAssignLocationAnswer(req, outcome) ==
    /\ onAssignLocationAnswer(req, outcome)
    /\ MapUnmount

\* The Cancel button of the assign modal.
cancelAssign ==
    /\ isMapVisible
    /\ isAssignModalVisible
    /\ isAssignModalVisible' = FALSE
    /\ selectedProximity' = DefaultProximity
    /\ last' = [op |-> "cancelAssign"]
    /\ UNCHANGED <<region, errorMsg, selectedLocation, searchQuery,
                   searchResults, isSearching, showSearchResults,
                   searchTimeout, blurTimeouts, searches, searched,
                   latestQuery>>
    /\ UNCHANGED <<screenVars, store, serverActive>>

\* The close request of the assign modal (the system's back button).
onRequestClose ==
    /\ isMapVisible
    /\ isAssignModalVisible
    /\ isAssignModalVisible' = FALSE
    /\ last' = [op |-> "onRequestClose"]
    /\ UNCHANGED <<region, errorMsg, selectedLocation, selectedProximity,
                   searchQuery, searchResults, isSearching,
                   showSearchResults, searchTimeout, blurTimeouts, searches,
                   searched, latestQuery>>
    /\ UNCHANGED <<screenVars, store, serverActive>>

\* The Close Map button and the map modal's close request unmount the
\* screen.
closeMapScreen ==
    /\ closeMap
    /\ MapUnmount

\* ---- the map screen: proximity -------------------------------------------
\* C21: in the map screen the selected proximity is at all times one of
\* 1, 10, 25 and 50 metres, and the location handed to onAssignLocation for
\* a reminder is the selected coordinate with the proximity that was
\* selected at the moment the reminder was chosen.
C21_ProximityOfferedAndHandedOver ==
    /\ selectedProximity \in Proximities
    /\ last.op = "onAssignLocation" =>
          /\ last.req.location.proximity = selectedProximity
          /\ last.req.location.latitude = selectedLocation[1].latitude
          /\ last.req.location.longitude = selectedLocation[1].longitude

\* a reminder was chosen with 25 m selected while an earlier assignment,
\* made with another distance, is still in flight
C21_Witness ==
    /\ last.op = "onAssignLocation"
    /\ last.req.location.proximity = 25
    /\ \E req \in inflight :
          req.kind = "assign" /\ req.location.proximity # 25

\* C29: each time the assign-location modal becomes visible the selected
\* proximity is the default 10 m, whichever way the modal was closed before
\* (assigning, cancelling, the system's close request).
C29_ModalOpensWithDefaultProximity ==
    (last.op \in {"handleMapPress", "testModal"} /\ isAssignModalVisible) =>
       selectedProximity = DefaultProximity

\* ---- the map screen: search ----------------------------------------------
\* no search request is in flight and no debounce timer is pending
SearchQuiet == searches = {} /\ searchTimeout = <<>>

\* C28: for any sequence of search inputs and submits and any order of the
\* answers, once no search request is in flight and no debounce timer is
\* pending, the search results kept for display are those of the query
\* issued last, never those of an earlier query that was answered late.
C28_ResultsOfLatestQuery ==
    (SearchQuiet /\ searchResults # <<>>) =>
       /\ latestQuery # <<>>
       /\ searchResults = Places(latestQuery[1])

None    == <<>>
Some(v) == <<v>>

MaxStore == 2          \* documents the collection may hold

\* A request or response body: the fields the client and the schema name.
Body(title, category, isActive, location, note) ==
    [title |-> title, category |-> category, isActive |-> isActive,
     location |-> location, note |-> note]

EmptyBody == Body(None, None, None, None, None)

\* API_ENDPOINTS: the path below the router's mount point /api/reminders.
\* The two versions of config/api.ts differ in REMINDER_BY_ID.
REMINDERS == <<>>
REMINDER_BY_ID(id) == {<<id>>, <<id, "location">>}

\* The requests the handlers of the reminders screen send.
LoadRequest == [method |-> "GET", path |-> REMINDERS, body |-> EmptyBody]

ToggleRequests(id, isActive) ==
    {[method |-> "PATCH", path |-> path,
      body |-> Body(None, None, Some(isActive), None, None)] :
        path \in REMINDER_BY_ID(id)}

AddRequest(title, category) ==
    [method |-> "POST", path |-> REMINDERS,
     body |-> Body(Some(Trim(title)), Some(category), Some(TRUE), None, None)]

DeleteRequests(id) ==
    {[method |-> "DELETE", path |-> path, body |-> EmptyBody] :
        path \in REMINDER_BY_ID(id)}

AssignRequests(id, location) ==
    {[method |-> "PATCH", path |-> path,
      body |-> Body(None, None, None, Some(location), None)] :
        path \in REMINDER_BY_ID(id)}

ClientRequests ==
    {LoadRequest}
    \cup UNION {ToggleRequests(id, b) : id \in Ids, b \in BOOLEAN}
    \cup {AddRequest(t, c) : t \in {x \in Titles : Trim(x) # <<>>},
                             c \in categories}
    \cup UNION {DeleteRequests(id) : id \in Ids}
    \cup UNION {AssignRequests(id, l) : id \in Ids, l \in Locations}

\* POSTs of any other HTTP client: any title, with or without a location
\* and a note.
OtherRequests ==
    {[method |-> "POST", path |-> REMINDERS,
      body |-> Body(t, None, None, l, n)] :
        t \in {None, Some(<<>>), Some(<<"a">>)},
        l \in {None} \cup {Some(x) : x \in Locations},
        n \in {None, Some("n")}}

Requests == ClientRequests \cup OtherRequests

\* new Reminder(req.body): the schema is strict, a field it does not name
\* (category, isActive) is not part of the document.  The timestamp default
\* and the version key are left out.
NewDocument(body, newId) ==
    [_id |-> newId, title |-> body.title, category |-> None,
     isActive |-> None, location |-> body.location, note |-> body.note]

\* The validation save() runs: title is required (an empty string does not
\* count), and so are location.latitude and location.longitude, which are
\* paths of the document itself and not of an optional subdocument.
Valid(doc) ==
    /\ doc.title # None
    /\ doc.title # Some(<<>>)
    /\ doc.location # None

Response(status, docs) == [status |-> status, docs |-> docs]

\* response.ok
Ok(status) == status >= 200 /\ status <= 299

\* router.post('/'): the response and the collection afterwards.
PostReminder(body, newId, coll) ==
    LET newReminder == NewDocument(body, newId)
    IN IF Valid(newReminder)
       THEN [res |-> Response(201, <<newReminder>>),
             store |-> Append(coll, newReminder)]
       ELSE [res |-> Response(500, <<>>), store |-> coll]

\* router.get('/')
GetReminders(coll) == [res |-> Response(200, coll), store |-> coll]

\* The router: two routes; any other method or path falls through to
\* Express's 404.
Route(req, newId, coll) ==
    IF req.method = "POST" /\ req.path = <<>>
    THEN PostReminder(req.body, newId, coll)
    ELSE IF req.method = "GET" /\ req.path = <<>>
    THEN GetReminders(coll)
    ELSE [res |-> Response(404, <<>>), store |-> coll]

StoredIds(coll) == {coll[i]._id : i \in 1..Len(coll)}

\* The backend serves one request.
Serve(req, newId) ==
    /\ LET out == Route(req, newId, store)
       IN /\ Len(out.store) <= MaxStore
          \* an _id given to a new document is one no document has
          /\ Len(out.store) > Len(store) => newId \notin StoredIds(store)
          /\ store' = out.store
          /\ last' = [op |-> "serve", req |-> req, res |-> out.res,
                      before |-> store]
    /\ UNCHANGED <<screenVars, serverActive, mapVars>>

NextBackend == \E req \in Requests, newId \in Ids : Serve(req, newId)

SpecBackend == Init /\ [][NextBackend]_vars

\* the collection holds a document with this _id
Stored(coll, id) == id \in StoredIds(coll)

\* C19: every request the mobile client issues is handled by the backend as
\* CRUD over reminders: POST on the collection stores a document and answers
\* 201 with it, GET on the collection answers 200 with all stored documents,
\* PATCH on a stored reminder by id updates the stored document, and DELETE
\* on a stored reminder by id removes it.
C19_BackendIsCrud ==
    (last.op = "serve" /\ last.req \in ClientRequests) =>
       LET req == last.req
           res == last.res
       IN /\ req.method = "POST" =>
                /\ res.status = 201
                /\ Len(res.docs) = 1
                /\ store = Append(last.before, res.docs[1])
          /\ req.method = "GET" =>
                /\ res.status = 200
                /\ res.docs = store
          /\ (req.method = "PATCH" /\ Stored(last.before, req.path[1])) =>
                /\ Ok(res.status)
                /\ \A i \in 1..Len(store) :
                      store[i]._id = req.path[1] =>
                         /\ req.body.isActive # None =>
                               store[i].isActive = req.body.isActive
                         /\ req.body.location # None =>
                               store[i].location = req.body.location
          /\ (req.method = "DELETE" /\ Stored(last.before, req.path[1])) =>
                /\ Ok(res.status)
                /\ ~Stored(store, req.path[1])

\* C20: a reminder the client creates with a title, a category, an active
\* flag and no location is accepted by the backend, and the list that
\* follows returns it with the same title, category and active flag.
C20_CreateThenListRoundTrip ==
    (/\ last.op = "serve"
     /\ last.req \in ClientRequests
     /\ last.req.method = "POST") =>
       /\ Ok(last.res.status)
       /\ LET listed == GetReminders(store).res
          IN /\ Ok(listed.status)
             /\ \E i \in 1..Len(listed.docs) :
                   /\ ~Stored(last.before, listed.docs[i]._id)
                   /\ listed.docs[i].title = last.req.body.title
                   /\ listed.docs[i].category = last.req.body.category
                   /\ listed.docs[i].isActive = last.req.body.isActive

\* ---- specification ------------------------------------------------------
\* the reminders screen, with the map screen left aside
Next ==
    \/ loadReminders /\ UNCHANGED mapVars
    \/ \E id \in Ids : toggleReminder(id) /\ UNCHANGED mapVars
    \/ \E req \in inflight, outcome \in Outcomes :
          toggleReminderAnswer(req, outcome) /\ UNCHANGED mapVars
    \/ \E category \in categories :
          openAddModal(category) /\ UNCHANGED mapVars
    \/ \E text \in Titles : setNewReminderTitle(text) /\ UNCHANGED mapVars
    \/ resetModal /\ UNCHANGED mapVars
    \/ addReminder /\ UNCHANGED mapVars
    \/ \E req \in {r \in inflight : r.kind = "add"}, outcome \in Outcomes,
          newId \in Ids :
          /\ addReminderAnswer(req, outcome,
                               SavedReminder(req.newReminder, newId))
          /\ UNCHANGED mapVars
    \/ \E i \in 1..MaxReminders : handleReminderPress(i) /\ UNCHANGED mapVars
    \/ resetDeleteModal /\ UNCHANGED mapVars
    \/ deleteReminder /\ UNCHANGED mapVars
    \/ \E req \in inflight, outcome \in Outcomes :
          deleteReminderAnswer(req, outcome) /\ UNCHANGED mapVars
    \/ \E id \in Ids : openMap(id) /\ UNCHANGED mapVars
    \/ closeMap /\ UNCHANGED mapVars
    \/ \E id \in Ids, location \in Locations :
          onAssignLocation(id, location) /\ UNCHANGED mapVars
    \/ \E req \in inflight, outcome \in Outcomes :
          onAssignLocationAnswer(req, outcome) /\ UNCHANGED mapVars

Spec == Init /\ [][Next]_vars

\* The map screen inside the map modal of the reminders screen, its search
\* field left untouched: pressing the map, choosing a distance, assigning.
NextMap ==
    \/ loadReminders /\ UNCHANGED mapVars
    \/ \E id \in Ids : openMap(id) /\ UNCHANGED mapVars
    \/ closeMapScreen
    \/ \E status \in {"granted", "denied"} : locationEffect(status)
    \/ \E coordinate \in Coordinates : handleMapPress(coordinate)
    \/ testModal
    \/ \E distance \in Proximities : setSelectedProximity(distance)
    \/ \E id \in Ids : handleAssignLocation(id)
    \/ \E req \in inflight, outcome \in Outcomes :
          handleAssignLocationAnswer(req, outcome)
    \/ cancelAssign
    \/ onRequestClose

SpecMap == Init /\ [][NextMap]_vars

\* The map screen with its search field in use and no reminder chosen in
\* the assign modal.
NextSearch ==
    \/ loadReminders /\ UNCHANGED mapVars
    \/ \E id \in Ids : openMap(id) /\ UNCHANGED mapVars
    \/ closeMapScreen
    \/ \E status \in {"granted", "denied"} : locationEffect(status)
    \/ \E text \in SearchTexts : handleSearchInput(text)
    \/ searchTimeoutFires
    \/ onSubmitEditing
    \/ \E req \in searches, outcome \in Outcomes :
          \E data \in {<<>>, Places(req.query)} :
             searchLocationAnswer(req, outcome, data)
    \/ \E i \in 1..Len(searchResults) : handleSearchResultSelect(i)
    \/ clearSearch
    \/ handleSearchFocus
    \/ handleSearchBlur
    \/ blurTimeoutFires
    \/ \E coordinate \in Coordinates : handleMapPress(coordinate)
    \/ cancelAssign
    \/ onRequestClose

SpecSearch == Init /\ [][NextSearch]_vars
====
